---- MODULE Spec2Model ----
(***************************************************************************)
(* A model of delmarva_load_profiles.Delmarva: the code-mapping loader     *)
(* (__init__), the raw fetcher (_retrieve_raw_data), the series parser     *)
(* (get_lp_series), the range aggregator (get_lp_data) and the exporter    *)
(* (export_for_oracle).                                                    *)
(*                                                                         *)
(* Text is a sequence of one-character strings, so that splitting into     *)
(* lines and tokens, the header skip and the conversions are computed as   *)
(* the code computes them.  A table cell is <<v>> for a value and <<>> for *)
(* a missing one (None / NaN / NaT).                                       *)
(***************************************************************************)
EXTENDS Integers, Sequences, FiniteSets, TLC

VARIABLES
    codes,      \* self.codes: the code mapping loaded at construction
    site,       \* the vendor's archive: URL -> response
    dirs,       \* the local file system: the directories that exist
    files,      \* the local file system: path -> content of the file
    requests,   \* the HTTP GETs issued by the call in `ret`, in order
    calls,      \* the get_lp_series calls made by the call in `ret`
    warnings,   \* the warnings printed by the call in `ret`
    ret         \* the last call: operation, arguments and outcome

vars == <<codes, site, dirs, files, requests, calls, warnings, ret>>

(***************************************************************************)
(* Bounds of the model.                                                    *)
(***************************************************************************)
MaxDays == 2        \* calendar days of the modelled archive
MaxDataLines == 1   \* lines after the header in a modelled raw file
MaxRows == 2        \* rows of a combined table handed to the exporter

(***************************************************************************)
(* Python values.                                                          *)
(***************************************************************************)
None == [kind |-> "none"]
Str(t) == [kind |-> "str", text |-> t]
Raise(e, m) == [kind |-> "raise", exc |-> e, msg |-> m]
NaN == <<>>
Val(v) == <<v>>

\* no call made, or its result dropped
Idle == [op |-> "idle"]

Digits == <<"0", "1", "2", "3", "4", "5", "6", "7", "8", "9">>
DigitVal(c) == CHOOSE n \in 0..9 : Digits[n + 1] = c

RECURSIVE StrOfInt(_)
StrOfInt(n) ==
    IF n < 10 THEN <<Digits[n + 1]>>
    ELSE StrOfInt(n \div 10) \o <<Digits[(n % 10) + 1]>>

RECURSIVE zfill(_, _)
zfill(s, w) == IF Len(s) >= w THEN s ELSE zfill(<<"0">> \o s, w)

IsDigits(s) == Len(s) > 0 /\ \A i \in 1..Len(s) : s[i] \in {Digits[k] : k \in 1..10}

RECURSIVE IntOfStr(_)
IntOfStr(s) ==
    IF s = <<>> THEN 0
    ELSE 10 * IntOfStr(SubSeq(s, 1, Len(s) - 1)) + DigitVal(s[Len(s)])

RECURSIVE Cat(_)
Cat(s) == IF s = <<>> THEN "" ELSE Head(s) \o Cat(Tail(s))

Range(s) == {s[i] : i \in 1..Len(s)}

\* a sequence given as a function, as the tuple of its values
Tuple(f) == f \o <<>>

(***************************************************************************)
(* Calendar dates, as datetime.date / pandas.Timestamp at day resolution.  *)
(***************************************************************************)
Date(y, m, d) == [year |-> y, month |-> m, day |-> d]

IsLeap(y) == (y % 4 = 0 /\ y % 100 # 0) \/ y % 400 = 0

DaysInMonth(y, m) ==
    IF m = 2 THEN (IF IsLeap(y) THEN 29 ELSE 28)
    ELSE IF m \in {4, 6, 9, 11} THEN 30 ELSE 31

NextDay(d) ==
    IF d.day < DaysInMonth(d.year, d.month) THEN Date(d.year, d.month, d.day + 1)
    ELSE IF d.month < 12 THEN Date(d.year, d.month + 1, 1)
    ELSE Date(d.year + 1, 1, 1)

DateLt(a, b) ==
    \/ a.year < b.year
    \/ a.year = b.year /\ a.month < b.month
    \/ a.year = b.year /\ a.month = b.month /\ a.day < b.day

DateLeq(a, b) == a = b \/ DateLt(a, b)

RECURSIVE date_range(_, _)
date_range(from_date, to_date) ==
    IF DateLeq(from_date, to_date)
    THEN <<from_date>> \o date_range(NextDay(from_date), to_date)
    ELSE <<>>

\* dt.strftime('%Y%m%d')
strftime_Ymd(dt) ==
    zfill(StrOfInt(dt.year), 4) \o zfill(StrOfInt(dt.month), 2)
        \o zfill(StrOfInt(dt.day), 2)

\* the date_format '%m/%d/%Y' of the raw files
strftime_mdY(dt) ==
    zfill(StrOfInt(dt.month), 2) \o <<"/">> \o zfill(StrOfInt(dt.day), 2)
        \o <<"/">> \o zfill(StrOfInt(dt.year), 4)

hasattr(obj, a) ==
    IF a = "strftime" THEN "day" \in DOMAIN obj ELSE a \in DOMAIN obj

(***************************************************************************)
(* The raw fetcher.                                                        *)
(***************************************************************************)
ldc_state == [CNM |-> <<"M", "D">>, CND |-> <<"D", "E">>, CNV |-> <<"V", "A">>]

\* every LDC of the state lookup taken as supported
ldcsAllStates == <<"CND", "CNM", "CNV">>

ldcs == <<"CND", "CNM">>

LowerOf == [A |-> "a", D |-> "d", E |-> "e", M |-> "m", V |-> "v"]
UpperOf == [a |-> "A", d |-> "D", e |-> "E", m |-> "M", v |-> "V"]
lower(s) == Tuple([i \in 1..Len(s) |-> IF s[i] \in DOMAIN LowerOf THEN LowerOf[s[i]] ELSE s[i]])
upper(s) == Tuple([i \in 1..Len(s) |-> IF s[i] \in DOMAIN UpperOf THEN UpperOf[s[i]] ELSE s[i]])

\* self.delmarva_url.format(**params)
delmarva_url(params) ==
    "http://www2.conectiv.com/cpd/tps/archives/"
        \o Cat(params.state_lower) \o "/" \o Cat(StrOfInt(params.yr)) \o "/"
        \o Cat(params.mo) \o "/" \o Cat(params.sDt) \o Cat(params.state_upper)
        \o "A" \o Cat(StrOfInt(params.url_index)) \o ".txt"

UrlParams(dt, ldc, i) ==
    [yr |-> dt.year,
     mo |-> zfill(StrOfInt(dt.month), 2),
     sDt |-> strftime_Ymd(dt),
     state_lower |-> lower(ldc_state[ldc]),
     state_upper |-> upper(ldc_state[ldc]),
     url_index |-> i]

NotFound == [status_code |-> 404, text |-> <<>>]

\* requests.get(url): what the archive serves at url
Get(url) == IF url \in DOMAIN site THEN site[url] ELSE NotFound

\* r.raise_for_status(): HTTPError for a 4xx or 5xx status, nothing otherwise
raise_for_status(r) ==
    IF 400 <= r.status_code /\ r.status_code < 600 THEN Raise("HTTPError", "status")
    ELSE None

\* for i in (2, 1): ... else: r.raise_for_status(); falling off the end
\* of the function returns None
RECURSIVE ForUrlIndex(_, _, _, _)
ForUrlIndex(dt, ldc, idx, reqs) ==
    IF idx = <<>>
    THEN [out |-> raise_for_status(Get(reqs[Len(reqs)].url)), requests |-> reqs]
    ELSE LET params == UrlParams(dt, ldc, Head(idx))
             url == delmarva_url(params)
             r == Get(url)
             sent == Append(reqs, [url |-> url, params |-> params,
                                   status_code |-> r.status_code])
         IN  IF r.status_code = 200
             THEN [out |-> Str(r.text), requests |-> sent]
             ELSE ForUrlIndex(dt, ldc, Tail(idx), sent)

\* the original revision tried before the updated one
UrlIndexesOriginalFirst == <<1, 2>>

UrlIndexes == <<2, 1>>

retrieve_raw_data(dt, ldc) ==
    IF ldc \notin Range(ldcs)
    THEN [out |-> Raise("AssertionError", "ldc in self.ldcs"), requests |-> <<>>]
    ELSE IF ~ \A a \in {"month", "year"} : hasattr(dt, a)
    THEN [out |-> Raise("TypeError", "Invalid date type"), requests |-> <<>>]
    ELSE IF ~ hasattr(dt, "strftime")
    THEN [out |-> Raise("AttributeError", "strftime"), requests |-> <<>>]
    ELSE ForUrlIndex(dt, ldc, UrlIndexes, <<>>)

(***************************************************************************)
(* The series parser.                                                      *)
(***************************************************************************)
LF == "\n"
CR == "\r"
Whitespace == {" ", "\t", LF, CR}

\* data.replace(c, '')
replace(text, c) == SelectSeq(text, LAMBDA x : x # c)

\* the k-th smallest element of a set of positions
Nth(P, k) == CHOOSE p \in P : Cardinality({q \in P : q < p}) = k - 1

\* text.split(sep): the pieces between separators, empty pieces kept
split_sep(text, sep) ==
    LET P == {i \in 1..Len(text) : text[i] = sep}
        n == Cardinality(P)
    IN  Tuple([k \in 1..(n + 1) |->
                  SubSeq(text,
                         IF k = 1 THEN 1 ELSE Nth(P, k - 1) + 1,
                         IF k = n + 1 THEN Len(text) ELSE Nth(P, k) - 1)])

\* the first position from i on whose character is (not) in S, or Len + 1
RECURSIVE SkipIn(_, _, _)
SkipIn(line, i, S) ==
    IF i > Len(line) \/ line[i] \notin S THEN i ELSE SkipIn(line, i + 1, S)

RECURSIVE SkipNotIn(_, _, _)
SkipNotIn(line, i, S) ==
    IF i > Len(line) \/ line[i] \in S THEN i ELSE SkipNotIn(line, i + 1, S)

\* line.split(): the maximal runs of non-whitespace characters
RECURSIVE WordsFrom(_, _)
WordsFrom(line, i) ==
    LET b == SkipIn(line, i, Whitespace)
        e == SkipNotIn(line, b, Whitespace)
    IN  IF b > Len(line) THEN <<>>
        ELSE <<SubSeq(line, b, e - 1)>> \o WordsFrom(line, e)

split(line) == WordsFrom(line, 1)

\* every non-empty line after the header kept, one-character lines included
RECURSIVE ParsedFromNonEmpty(_, _)
ParsedFromNonEmpty(lines, j) ==
    IF j > Len(lines) THEN <<>>
    ELSE (IF Len(lines[j]) > 0 /\ j - 1 > 3 THEN <<split(lines[j])>> ELSE <<>>)
             \o ParsedFromNonEmpty(lines, j + 1)

\* [line.split() for i, line in enumerate(lines) if len(line) > 1 and i > 3]
\* (lines[j] is the line enumerate numbers j - 1)
RECURSIVE ParsedFrom(_, _)
ParsedFrom(lines, j) ==
    IF j > Len(lines) THEN <<>>
    ELSE (IF Len(lines[j]) > 1 /\ j - 1 > 3 THEN <<split(lines[j])>> ELSE <<>>)
             \o ParsedFrom(lines, j + 1)

Parsed(data) == ParsedFrom(split_sep(replace(data, CR), LF), 1)

\* ['H' + str(h).zfill(2) for h in range(1, 25)]
Hours == Tuple([h \in 1..24 |-> "H" \o Cat(zfill(StrOfInt(h), 2))])

\* seq.insert(i, x)
insert(seq, i, x) == SubSeq(seq, 1, i) \o <<x>> \o SubSeq(seq, i + 1, Len(seq))

DstHours == insert(Hours, 2, "H02X")

StdColumnsOf == <<"segment", "date">> \o Hours

IndexOf(seq, x) == CHOOSE i \in 1..Len(seq) : seq[i] = x

Max(S) == CHOOSE x \in S : \A y \in S : y <= x

\* pd.DataFrame(parsed, columns=cols): the rows are padded with None to the
\* longest one, and a width other than the number of columns is an error
FrameWidth(parsed) == Max({Len(parsed[i]) : i \in 1..Len(parsed)})

FrameRows(parsed, cols) ==
    [i \in 1..Len(parsed) |->
        [c \in Range(cols) |->
            IF IndexOf(cols, c) <= Len(parsed[i])
            THEN Val(parsed[i][IndexOf(cols, c)]) ELSE NaN]]

Frame(cols, rows) == [kind |-> "frame", columns |-> cols, rows |-> rows]

\* x.astype('float') on one cell: None becomes NaN
IsFloat(cell) == cell = NaN \/ IsDigits(cell[1])
AsFloat(cell) == IF cell = NaN THEN NaN ELSE Val(IntOfStr(cell[1]))

\* pd.to_datetime(dt, format='%m/%d/%Y') on one cell: None becomes NaT
DateParts(w) == split_sep(w, "/")
IsDate(cell) ==
    \/ cell = NaN
    \/ LET p == DateParts(cell[1])
       IN  /\ Len(p) = 3
           /\ \A k \in 1..3 : IsDigits(p[k])
           /\ Len(p[1]) <= 2 /\ Len(p[2]) <= 2 /\ Len(p[3]) = 4
           /\ IntOfStr(p[1]) \in 1..12
           /\ IntOfStr(p[2]) \in 1..DaysInMonth(IntOfStr(p[3]), IntOfStr(p[1]))
ToDatetime(cell) ==
    IF cell = NaN THEN NaN
    ELSE LET p == DateParts(cell[1])
         IN  Val(Date(IntOfStr(p[3]), IntOfStr(p[1]), IntOfStr(p[2])))

\* s.str.strip().str.slice(start=8) on one cell (a token holds no whitespace)
strip(w) == w
slice_start(w, start) == SubSeq(w, start + 1, Len(w))
SegmentStart == 8
SegmentOf(cell) ==
    IF cell = NaN THEN NaN ELSE Val(slice_start(strip(cell[1]), SegmentStart))

ConvertRow(row, hours) ==
    [c \in DOMAIN row |->
        IF c = "date" THEN ToDatetime(row[c])
        ELSE IF c = "segment" THEN SegmentOf(row[c])
        ELSE AsFloat(row[c])]

Convertible(rows, hours) ==
    \A i \in 1..Len(rows) :
        /\ \A k \in 1..Len(hours) : IsFloat(rows[i][hours[k]])
        /\ IsDate(rows[i]["date"])

\* NaN + x is NaN
Add(a, b) == IF a = NaN \/ b = NaN THEN NaN ELSE Val(a[1] + b[1])

\* the duplicate hour dropped without being added to H02
CombineDstDropOnly(df) ==
    Frame(SelectSeq(df.columns, LAMBDA c : c # "H02X"),
          [i \in 1..Len(df.rows) |->
              [c \in DOMAIN df.rows[i] \ {"H02X"} |-> df.rows[i][c]]])

\* df['H02'] += df['H02X']; del df['H02X']
CombineDst(df) ==
    Frame(SelectSeq(df.columns, LAMBDA c : c # "H02X"),
          [i \in 1..Len(df.rows) |->
              [c \in DOMAIN df.rows[i] \ {"H02X"} |->
                  IF c = "H02" THEN Add(df.rows[i]["H02"], df.rows[i]["H02X"])
                  ELSE df.rows[i][c]]])

DstCols == 27
StdCols == 26

\* get_lp_series from the split of the raw text on: the outcome, the schema
\* chosen (<<>> when none was) and the warnings printed
ParseSeries(data, agg_dst_hr2) ==
    LET parsed == Parsed(data)
        n_lines == Len(parsed)
        warn == IF n_lines = 1 THEN <<"PartialData">> ELSE <<>>
    IN  IF n_lines = 0
        THEN [out |-> Raise("ValueError", "Did not receive any valid data"),
              cols |-> <<>>, warnings |-> <<>>]
        ELSE
        LET n_cols == Len(parsed[1])
            dst == (n_cols = DstCols)
            hours == IF dst THEN DstHours ELSE Hours
            cols == <<"segment", "date">> \o hours
        IN  IF ~dst /\ n_cols # StdCols
            THEN [out |-> Raise("ValueError", "Invalid data structure"),
                  cols |-> <<>>, warnings |-> warn]
            ELSE IF FrameWidth(parsed) # Len(cols)
            THEN [out |-> Raise("ValueError", "columns passed"),
                  cols |-> cols, warnings |-> warn]
            ELSE IF ~Convertible(FrameRows(parsed, cols), hours)
            THEN [out |-> Raise("ValueError", "conversion"),
                  cols |-> cols, warnings |-> warn]
            ELSE
            LET raw == FrameRows(parsed, cols)
                df == Frame(cols, [i \in 1..Len(raw) |-> ConvertRow(raw[i], hours)])
            IN  [out |-> IF dst /\ agg_dst_hr2 THEN CombineDst(df) ELSE df,
                 cols |-> cols, warnings |-> warn]

get_lp_series(target_dt, ldc, agg_dst_hr2) ==
    LET f == retrieve_raw_data(target_dt, ldc)
    IN  IF f.out.kind = "raise" /\ f.out.exc = "HTTPError"
        THEN [out |-> None, cols |-> <<>>, warnings |-> <<"NoDataAvailable">>,
              requests |-> f.requests]
        ELSE IF f.out.kind = "raise"
        THEN [out |-> f.out, cols |-> <<>>, warnings |-> <<>>,
              requests |-> f.requests]
        ELSE IF f.out.kind = "none"
        THEN [out |-> Raise("AttributeError", "NoneType has no replace"),
              cols |-> <<>>, warnings |-> <<>>, requests |-> f.requests]
        ELSE LET p == ParseSeries(f.out.text, agg_dst_hr2)
             IN  [out |-> p.out, cols |-> p.cols, warnings |-> p.warnings,
                  requests |-> f.requests]

(***************************************************************************)
(* The range aggregator.                                                   *)
(***************************************************************************)
\* pd.to_datetime((from_dt, to_dt)) on the strings the example usage passes
ParseDateArg(d) == IF "text" \in DOMAIN d THEN ToDatetime(Val(d.text))[1] ELSE d

\* [(dt, ldc) for dt in rng for ldc in self.ldcs]
RECURSIVE Pairs(_)
Pairs(rng) ==
    IF rng = <<>> THEN <<>>
    ELSE [k \in 1..Len(ldcs) |-> <<Head(rng), ldcs[k]>>] \o Pairs(Tail(rng))

\* pd.concat(objs, ignore_index=True): None is dropped silently, and
\* nothing to concatenate is a ValueError
RECURSIVE ConcatRows(_)
ConcatRows(objs) ==
    IF objs = <<>> THEN <<>>
    ELSE (IF Head(objs).kind = "frame" THEN Head(objs).rows ELSE <<>>)
             \o ConcatRows(Tail(objs))

concat(objs) ==
    LET frames == SelectSeq(objs, LAMBDA o : o.kind = "frame")
    IN  IF objs = <<>>
        THEN Raise("ValueError", "No objects to concatenate")
        ELSE IF frames = <<>>
        THEN Raise("ValueError", "All objects passed were None")
        ELSE Frame(frames[1].columns, ConcatRows(objs))

\* one element of the list comprehension: the call's result joins the list
\* unless the call raised
Collect(acc, pair, s) ==
    [objs |-> Append(acc.objs, s.out),
     calls |-> Append(acc.calls, [dt |-> pair[1], ldc |-> pair[2],
                                  out |-> s.out.kind]),
     requests |-> acc.requests \o s.requests,
     warnings |-> acc.warnings \o s.warnings,
     raised |-> IF s.out.kind = "raise" THEN <<s.out>> ELSE <<>>]

\* the list comprehension: get_lp_series for each pair in turn, until one raises
RECURSIVE SeriesOf(_, _)
SeriesAfter(pairs, now) ==
    IF now.raised # <<>> THEN now ELSE SeriesOf(pairs, now)

SeriesOf(pairs, acc) ==
    IF pairs = <<>> THEN acc
    ELSE SeriesAfter(Tail(pairs),
                     Collect(acc, Head(pairs),
                             get_lp_series(Head(pairs)[1], Head(pairs)[2], TRUE)))

\* pd.concat over what the comprehension built, unless a call raised first
Concatenated(got) ==
    [out |-> IF got.raised # <<>> THEN got.raised[1] ELSE concat(got.objs),
     calls |-> got.calls, requests |-> got.requests,
     warnings |-> got.warnings]

get_lp_data(from_dt, to_dt) ==
    Concatenated(SeriesOf(Pairs(date_range(ParseDateArg(from_dt),
                                           ParseDateArg(to_dt))),
                          [objs |-> <<>>, calls |-> <<>>, requests |-> <<>>,
                           warnings |-> <<>>, raised |-> <<>>]))

(***************************************************************************)
(* The modelled archive: raw files of a few shapes.                        *)
(***************************************************************************)
BaseDate == Date(2017, 1, 31)

RECURSIVE DaysFrom(_, _)
DaysFrom(d, n) == IF n = 0 THEN <<>> ELSE <<d>> \o DaysFrom(NextDay(d), n - 1)

Dates == Range(DaysFrom(BaseDate, MaxDays))

RECURSIVE Join(_, _)
Join(pieces, sep) ==
    IF pieces = <<>> THEN <<>>
    ELSE IF Len(pieces) = 1 THEN pieces[1]
    ELSE pieces[1] \o sep \o Join(Tail(pieces), sep)

SegmentPrefix == <<"P", "R", "O", "F", "I", "L", "E", "_">>

\* a data line of n tokens: the segment, the date, then hourly readings
MkLine(d, n, seg, h2) ==
    Join(<<SegmentPrefix \o seg, strftime_mdY(d)>>
             \o [k \in 1..(n - 2) |-> IF k = 2 THEN h2 ELSE <<Digits[(k % 10) + 1]>>],
         <<" ">>)

TokCounts == (StdCols - 1)..(DstCols + 1)

LineSpecs ==
    {[n |-> n, h2 |-> <<"2">>] : n \in TokCounts}
        \cup {[n |-> DstCols, h2 |-> <<"1", "2">>], [n |-> StdCols, h2 |-> <<"x">>]}
        \cup {[raw |-> <<>>], [raw |-> <<"z">>]}

Bodies == UNION {[1..k -> LineSpecs] : k \in 0..MaxDataLines}

LineOf(spec, d, k) ==
    IF "raw" \in DOMAIN spec THEN spec.raw
    ELSE MkLine(d, spec.n, <<"S", Digits[k + 1]>>, spec.h2)

\* "std": four header lines; "gap": a header whose second line is blank
HeaderOf(h) ==
    IF h = "std" THEN <<<<"h", "1">>, <<"h", "2">>, <<"h", "3">>, <<"h", "4">>>>
    ELSE <<<<"h", "1">>, <<>>, <<"h", "3">>, <<"h", "4">>>>

EolOf(h) == IF h = "std" THEN <<LF>> ELSE <<CR, LF>>

TextOf(shape, d) ==
    Join(HeaderOf(shape.header)
             \o [k \in 1..Len(shape.body) |-> LineOf(shape.body[k], d, k)]
             \o <<<<>>>>,
         EolOf(shape.header))

Ok(h, b) == [status_code |-> 200, header |-> h, body |-> b]
Status(c) == [status_code |-> c]

ErrorShapes == {Status(204), Status(404), Status(500)}
OkShapes == {Ok(h, b) : h \in {"std", "gap"}, b \in Bodies}
Std26 == Ok("std", <<[n |-> StdCols, h2 |-> <<"2">>]>>)
Gap27 == Ok("gap", <<[n |-> DstCols, h2 |-> <<"2">>]>>)

ResponseOf(shape, d) ==
    [status_code |-> shape.status_code,
     text |-> IF shape.status_code = 200 THEN TextOf(shape, d) ELSE <<>>]

KnownLdcs == DOMAIN ldc_state
UrlKeys == Dates \X KnownLdcs \X Range(UrlIndexes)
UrlOf(k) == delmarva_url(UrlParams(k[1], k[2], k[3]))

\* the archive that serves, for every day and state, the files plan names
SiteOf(plan) ==
    [u \in {UrlOf(k) : k \in UrlKeys} |->
        LET k == CHOOSE k \in UrlKeys : UrlOf(k) = u
        IN  ResponseOf(plan[k], k[1])]

\* one pair of revisions, the same for every day and state: any updated
\* file over a missing or a plain original, or any original under a failed
\* request for the updated file
FetchPlans ==
    {[k \in UrlKeys |-> IF k[3] = 2 THEN r2 ELSE r1] :
        r2 \in ErrorShapes \cup OkShapes, r1 \in {Status(404), Std26}}
    \cup
    {[k \in UrlKeys |-> IF k[3] = 2 THEN r2 ELSE r1] :
        r2 \in ErrorShapes, r1 \in ErrorShapes \cup OkShapes}

\* a pair of revisions for each day and LDC of the range
Scenarios ==
    {<<Std26, Status(404)>>, <<Status(404), Gap27>>,
     <<Status(404), Status(500)>>, <<Status(204), Status(204)>>}

RangePlans ==
    {[k \in UrlKeys |->
         IF k[2] \notin Range(ldcs) THEN Status(404)
         ELSE IF k[3] = 2 THEN sc[k[1], k[2]][1] ELSE sc[k[1], k[2]][2]] :
        sc \in [Dates \X Range(ldcs) -> Scenarios]}

(***************************************************************************)
(* The code-mapping loader.                                                *)
(***************************************************************************)
Sep == "\\"
Cwd == "C:\\lp"
codes_file_name == "delmarva_lp_code_mapping.csv"

EmptyFrame == [kind |-> "frame", columns |-> <<>>, index |-> <<>>, rows |-> <<>>]

\* pd.read_csv(file_path, index_col='T_DMS_LOAD_PROFILE'): the key column
\* becomes the index, the other column stays
read_csv(content) ==
    [kind |-> "frame", columns |-> <<"C_LOAD_PROFILE">>,
     index |-> [k \in 1..Len(content.rows) |->
                   Val(content.rows[k].T_DMS_LOAD_PROFILE)],
     rows |-> [k \in 1..Len(content.rows) |->
                   [C_LOAD_PROFILE |-> Val(content.rows[k].C_LOAD_PROFILE)]]]

\* __init__: self.codes and what it prints
LoadCodes(fs, codes_path) ==
    LET file_path == codes_path \o Sep \o codes_file_name
    IN  IF file_path \in DOMAIN fs
        THEN [codes |-> read_csv(fs[file_path]), warnings |-> <<>>]
        ELSE [codes |-> EmptyFrame, warnings |-> <<"CodesFileNotFound">>]

CodesFile(entries) == [kind |-> "codes", rows |-> entries]
CodesPath == Cwd \o Sep \o codes_file_name

(***************************************************************************)
(* The exporter.                                                           *)
(***************************************************************************)
MinDate(S) == CHOOSE x \in S : \A y \in S : DateLeq(x, y)

\* lp_data.date.min(): missing dates are skipped
DateMin(lp_data) ==
    MinDate({lp_data.rows[i]["date"][1] :
                 i \in {j \in 1..Len(lp_data.rows) : lp_data.rows[j]["date"] # NaN}})

\* 'Conectiv_{:%Y%m%d}.txt'.format(from_date)
DefaultFileName(from_date) == "Conectiv_" \o Cat(strftime_Ymd(from_date)) \o ".txt"

DataColumns(lp_data) == SelectSeq(lp_data.columns, LAMBDA c : c # "segment")

\* one row of the joined table: the data of an lp_data row (or nothing),
\* the destination code as index, and the EMPTY column
OutRow(cols, data, code) ==
    [c \in Range(cols) \cup {"C_LOAD_PROFILE", "EMPTY"} |->
        IF c = "C_LOAD_PROFILE" THEN code
        ELSE IF c = "EMPTY" THEN NaN
        ELSE IF data = <<>> THEN NaN ELSE data[1][c]]

RECURSIVE JoinRightFrom(_, _, _)
JoinRightFrom(lp_data, mapping, k) ==
    IF k > Len(mapping.index) THEN <<>>
    ELSE LET cols == DataColumns(lp_data)
             code == mapping.rows[k]["C_LOAD_PROFILE"]
             hits == SelectSeq(lp_data.rows,
                               LAMBDA r : r["segment"] # NaN
                                              /\ r["segment"] = mapping.index[k])
         IN  (IF hits = <<>> THEN <<OutRow(cols, <<>>, code)>>
              ELSE [i \in 1..Len(hits) |-> OutRow(cols, <<hits[i]>>, code)])
                 \o JoinRightFrom(lp_data, mapping, k + 1)

\* the join keeping every row of lp_data instead of every mapping entry
RECURSIVE JoinLeftFrom(_, _, _)
JoinLeftFrom(lp_data, mapping, i) ==
    IF i > Len(lp_data.rows) THEN <<>>
    ELSE LET cols == DataColumns(lp_data)
             r == lp_data.rows[i]
             ks == {k \in 1..Len(mapping.index) : mapping.index[k] = r["segment"]}
         IN  (IF ks = {} THEN <<OutRow(cols, <<r>>, NaN)>>
              ELSE [n \in 1..Cardinality(ks) |->
                       OutRow(cols, <<r>>, mapping.rows[Nth(ks, n)]["C_LOAD_PROFILE"])])
                 \o JoinLeftFrom(lp_data, mapping, i + 1)

JoinLeft(lp_data, mapping) == JoinLeftFrom(lp_data, mapping, 1)

\* lp_data.set_index('segment').join(self.codes.C_LOAD_PROFILE, how='right')
\*     .reset_index(drop=True).set_index('C_LOAD_PROFILE').assign(EMPTY=np.nan)
JoinRight(lp_data, mapping) == JoinRightFrom(lp_data, mapping, 1)

IndexOrders(n) == {p \in [1..n -> 1..n] : \A i, j \in 1..n : p[i] = p[j] => i = j}

\* the sort key of row a comes before that of row b; a missing key is last
Before(by, a, b) ==
    a[by] # NaN
        /\ (b[by] = NaN
                \/ IF by = "date" THEN DateLt(a[by][1], b[by][1])
                   ELSE a[by][1] < b[by][1])

\* a sort that is not stable: every order of the rows that is ascending in
\* the key
SortedOrders(rows, by) ==
    {[i \in 1..Len(rows) |-> rows[p[i]]] :
        p \in {q \in IndexOrders(Len(rows)) :
                  \A i, j \in 1..Len(rows) :
                      i < j => ~Before(by, rows[q[j]], rows[q[i]])}}

\* .sort_values('date')
sort_values_date(rows) == SortedOrders(rows, "date")

\* the rows left as they are
sort_index_skipped(rows) == {rows}

\* .sort_index()
sort_index(rows) == SortedOrders(rows, "C_LOAD_PROFILE")

ArchiveDir(path) == path \o "Archive"
ArchivePath(path, file_name) == path \o "Archive\\" \o file_name

\* the archive never consulted
ArchivedUnchecked(path, file_name) == FALSE

\* os.path.isdir(path + 'Archive') and os.path.exists(path + 'Archive\\' + file_name)
Archived(path, file_name) ==
    ArchiveDir(path) \in dirs /\ ArchivePath(path, file_name) \in DOMAIN files

Written(rows) == [kind |-> "export", rows |-> rows]

Put(fs, path, content) ==
    [q \in DOMAIN fs \cup {path} |-> IF q = path THEN content ELSE fs[q]]

(***************************************************************************)
(* The operations.                                                         *)
(***************************************************************************)
DateArgs == Dates \cup {[text |-> strftime_mdY(BaseDate)], [year |-> 2017, month |-> 1]}
LdcArgs == KnownLdcs \cup {"XXX"}

RetrieveRawData ==
    /\ ret = Idle
    /\ \E dt \in DateArgs, ldc \in LdcArgs :
        LET f == retrieve_raw_data(dt, ldc)
        IN  /\ ret' = [op |-> "_retrieve_raw_data", dt |-> dt, ldc |-> ldc,
                       out |-> f.out]
            /\ requests' = f.requests
            /\ calls' = <<>>
            /\ warnings' = <<>>
    /\ UNCHANGED <<codes, site, dirs, files>>

GetLpSeries ==
    /\ ret = Idle
    /\ \E dt \in DateArgs, ldc \in LdcArgs, agg \in BOOLEAN :
        LET s == get_lp_series(dt, ldc, agg)
        IN  /\ ret' = [op |-> "get_lp_series", dt |-> dt, ldc |-> ldc,
                       agg_dst_hr2 |-> agg, out |-> s.out, cols |-> s.cols]
            /\ requests' = s.requests
            /\ calls' = <<>>
            /\ warnings' = s.warnings
    /\ UNCHANGED <<codes, site, dirs, files>>

GetLpData ==
    /\ ret = Idle
    /\ \E from_dt \in Dates, to_dt \in Dates, as_str \in BOOLEAN :
        LET a == IF as_str THEN [text |-> strftime_mdY(from_dt)] ELSE from_dt
            b == IF as_str THEN [text |-> strftime_mdY(to_dt)] ELSE to_dt
            g == get_lp_data(a, b)
        IN  /\ ret' = [op |-> "get_lp_data", from_dt |-> a, to_dt |-> b,
                       out |-> g.out]
            /\ requests' = g.requests
            /\ calls' = g.calls
            /\ warnings' = g.warnings
    /\ UNCHANGED <<codes, site, dirs, files>>

\* the caller drops the result; the object keeps nothing of the call
Discard ==
    /\ ret # Idle
    /\ ret' = Idle
    /\ requests' = <<>>
    /\ calls' = <<>>
    /\ warnings' = <<>>
    /\ UNCHANGED <<codes, site, dirs, files>>

DefaultCodesFile == CodesFile(<<[T_DMS_LOAD_PROFILE |-> <<"S", "1">>, C_LOAD_PROFILE |-> 98]>>)

InitLocal ==
    /\ dirs = {}
    /\ files = Put(<<>>, CodesPath, DefaultCodesFile)
    /\ codes = LoadCodes(files, Cwd).codes
    /\ requests = <<>>
    /\ calls = <<>>
    /\ warnings = <<>>
    /\ ret = Idle

InitFetch == InitLocal /\ \E plan \in FetchPlans : site = SiteOf(plan)
NextFetch == RetrieveRawData \/ GetLpSeries \/ Discard
SpecFetch == InitFetch /\ [][NextFetch]_vars

InitRange == InitLocal /\ \E plan \in RangePlans : site = SiteOf(plan)
NextRange == GetLpData \/ Discard
SpecRange == InitRange /\ [][NextRange]_vars

(***************************************************************************)
(* The exporter's inputs and the file system it starts from.               *)
(***************************************************************************)
OutPath == "C:\\out\\"
RowSegments == {<<"S", "1">>, <<"S", "2">>, <<"S", "3">>}
KeySegments == {<<"S", "1">>, <<"S", "2">>}
ExportDates == {BaseDate, NextDay(BaseDate)}

\* a row of a combined table; the readings tell the segments apart
LpRow(seg, d) ==
    [c \in Range(StdColumnsOf) |->
        IF c = "segment" THEN Val(seg)
        ELSE IF c = "date" THEN Val(d)
        ELSE Val(IntOfStr(<<seg[2]>>) * 100 + IndexOf(Hours, c))]

LpRows == {LpRow(seg, d) : seg \in RowSegments, d \in ExportDates}
Tables == {Frame(StdColumnsOf, rows) : rows \in UNION {[1..n -> LpRows] : n \in 1..MaxRows}}

\* code-mapping files: entries with distinct keys, in any order
Entries == {[T_DMS_LOAD_PROFILE |-> seg, C_LOAD_PROFILE |-> c] :
               seg \in KeySegments, c \in {97, 98}}
Mappings ==
    {m \in UNION {[1..n -> Entries] : n \in 0..Cardinality(KeySegments)} :
        \A i, j \in 1..Len(m) :
            m[i].T_DMS_LOAD_PROFILE = m[j].T_DMS_LOAD_PROFILE => i = j}

OldOutput == Written(<<>>)
ArchivedFile == [kind |-> "archived"]
ArchivedName == DefaultFileName(BaseDate)

\* <<directories, files>> left by earlier runs
LocalStates ==
    {<<{}, <<>>>>,
     <<{}, Put(<<>>, OutPath \o ArchivedName, OldOutput)>>,
     <<{ArchiveDir(OutPath)}, <<>>>>,
     <<{ArchiveDir(OutPath)}, Put(<<>>, ArchivePath(OutPath, ArchivedName), ArchivedFile)>>,
     <<{ArchiveDir(OutPath)},
       Put(Put(<<>>, ArchivePath(OutPath, ArchivedName), ArchivedFile),
           OutPath \o ArchivedName, OldOutput)>>}

ExportForOracle ==
    /\ ret = Idle
    /\ \E lp_data \in Tables, path_arg \in {"", OutPath}, name_arg \in {"", "lp.txt"} :
        LET path == IF path_arg = "" THEN Cwd ELSE path_arg
            from_date == DateMin(lp_data)
            file_name == IF name_arg = "" THEN DefaultFileName(from_date) ELSE name_arg
            Call(out) == [op |-> "export_for_oracle", lp_data |-> lp_data,
                          path |-> path, file_name |-> file_name, out |-> out]
        IN  IF Archived(path, file_name)
            THEN /\ ret' = Call(Raise("FileExistsError", "already in Archive"))
                 /\ warnings' = <<>>
                 /\ UNCHANGED files
            ELSE IF "C_LOAD_PROFILE" \notin Range(codes.columns)
            THEN /\ ret' = Call(Raise("AttributeError", "C_LOAD_PROFILE"))
                 /\ warnings' = <<>>
                 /\ UNCHANGED files
            ELSE \E by_date \in sort_values_date(JoinRight(lp_data, codes)) :
                 \E by_code \in sort_index(by_date) :
                     /\ files' = Put(files, path \o file_name, Written(by_code))
                     /\ ret' = Call(None)
                     /\ warnings' = <<"downloaded">>
    /\ requests' = <<>>
    /\ calls' = <<>>
    /\ UNCHANGED <<codes, site, dirs>>

\* a run: the object is constructed over the local files, then exports once
InitExport ==
    /\ \E local \in LocalStates, m \in Mappings, has_codes \in BOOLEAN :
          /\ dirs = local[1]
          /\ files = IF has_codes THEN Put(local[2], CodesPath, CodesFile(m))
                     ELSE local[2]
          /\ (~has_codes) => m = <<>>
    /\ codes = LoadCodes(files, Cwd).codes
    /\ warnings = LoadCodes(files, Cwd).warnings
    /\ site = <<>>
    /\ requests = <<>>
    /\ calls = <<>>
    /\ ret = Idle
NextExport == ExportForOracle
SpecExport == InitExport /\ [][NextExport]_vars

(***************************************************************************)
(* Properties of the raw fetcher and the series parser (SpecFetch).        *)
(***************************************************************************)
SupportedLdcs == {"CND", "CNM"}
ValidArgs == ret.dt \in Dates /\ ret.ldc \in SupportedLdcs

\* the call ended with a request that returned status 200
GotText == requests # <<>> /\ requests[Len(requests)].status_code = 200
FetchedText == Get(requests[Len(requests)].url).text
FetchedLines == split_sep(replace(FetchedText, CR), LF)
FetchedRows == Parsed(FetchedText)

\* C1: _retrieve_raw_data on a valid (date, LDC) sends its first GET with
\* revision index 2; a GET with index 1 follows only a non-200 answer to the
\* index-2 request, and at most once; a request answered 200 is the last one
\* and its body is what the call returns.
C1_RevisionOrder ==
    (ret.op = "_retrieve_raw_data" /\ ValidArgs) =>
        /\ Len(requests) \in {1, 2}
        /\ requests[1].params.url_index = 2
        /\ Len(requests) = 2 =>
              /\ requests[1].status_code # 200
              /\ requests[2].params.url_index = 1
        /\ \A i \in 1..Len(requests) :
              requests[i].status_code = 200 =>
                  /\ i = Len(requests)
                  /\ ret.out = Str(Get(requests[i].url).text)
        /\ ret.out.kind = "str" => GotText

C1_FallbackServed ==
    /\ ret.op = "_retrieve_raw_data"
    /\ Len(requests) = 2
    /\ requests[1].status_code = 404
    /\ requests[2].status_code = 200
    /\ ret.out.kind = "str"

\* C2: when the revision-2 and the revision-1 request both return a status
\* other than 200, get_lp_series prints the no-data warning and returns None;
\* no exception leaves it.
C2_NoDataIsSkipped ==
    (/\ ret.op = "get_lp_series"
     /\ ValidArgs
     /\ Len(requests) = 2
     /\ requests[1].status_code # 200
     /\ requests[2].status_code # 200) =>
        /\ ret.out = None
        /\ warnings = <<"NoDataAvailable">>

StdColumns ==
    <<"segment", "date", "H01", "H02", "H03", "H04", "H05", "H06", "H07", "H08",
      "H09", "H10", "H11", "H12", "H13", "H14", "H15", "H16", "H17", "H18",
      "H19", "H20", "H21", "H22", "H23", "H24">>

DstColumns ==
    <<"segment", "date", "H01", "H02", "H02X", "H03", "H04", "H05", "H06",
      "H07", "H08", "H09", "H10", "H11", "H12", "H13", "H14", "H15", "H16",
      "H17", "H18", "H19", "H20", "H21", "H22", "H23", "H24">>

\* the two raw Hour-2 tokens of a data line of the daylight-saving layout
HasHour2Tokens(line) == Len(line) >= 5
RawH02(line) == IntOfStr(line[4])
RawH02X(line) == IntOfStr(line[5])

\* C4: the token count of the first data line picks the schema: 26 tokens
\* give the columns segment, date, H01..H24; 27 tokens give the same with H02X
\* right after H02, and then the returned table has H02 = the sum of the two
\* raw Hour-2 tokens and no H02X when aggregating, and both H02 and H02X
\* with their raw values when not; any other count is the invalid-structure
\* error.
C4_SchemaByTokenCount ==
    (ret.op = "get_lp_series" /\ GotText /\ FetchedRows # <<>>) =>
        LET n == Len(FetchedRows[1])
            out == ret.out
        IN  /\ n = 26 =>
                  /\ ret.cols = StdColumns
                  /\ out.kind = "frame" => out.columns = StdColumns
            /\ n = 27 =>
                  /\ ret.cols = DstColumns
                  /\ (out.kind = "frame" /\ ret.agg_dst_hr2) =>
                        /\ out.columns = StdColumns
                        /\ \A i \in 1..Len(out.rows) :
                              /\ "H02X" \notin DOMAIN out.rows[i]
                              /\ HasHour2Tokens(FetchedRows[i]) =>
                                    out.rows[i]["H02"] =
                                        Val(RawH02(FetchedRows[i]) + RawH02X(FetchedRows[i]))
                  /\ (out.kind = "frame" /\ ~ret.agg_dst_hr2) =>
                        /\ out.columns = DstColumns
                        /\ \A i \in 1..Len(out.rows) :
                              HasHour2Tokens(FetchedRows[i]) =>
                                  /\ out.rows[i]["H02"] = Val(RawH02(FetchedRows[i]))
                                  /\ out.rows[i]["H02X"] = Val(RawH02X(FetchedRows[i]))
            /\ n \notin {26, 27} =>
                  out = Raise("ValueError", "Invalid data structure")

C4_DstAggregated ==
    /\ ret.op = "get_lp_series"
    /\ ret.agg_dst_hr2
    /\ ret.out.kind = "frame"
    /\ ret.cols = DstColumns
    /\ ret.out.columns = StdColumns
    /\ ret.out.rows[1]["H02"] = Val(15)

NoValidData == Raise("ValueError", "Did not receive any valid data")

\* C5 as stated: a fetched raw text with fewer than 5 non-empty lines (lines
\* that hold a token) makes get_lp_series fail with the no-valid-data error.
C5_FewerThanFiveNonEmptyLines ==
    (/\ ret.op = "get_lp_series"
     /\ GotText
     /\ Cardinality({j \in 1..Len(FetchedLines) : split(FetchedLines[j]) # <<>>}) < 5) =>
        ret.out = NoValidData

\* C5 amended: a fetched raw text in which no line after the first four,
\* blank lines counted among the four, has more than one character makes
\* get_lp_series fail with the no-valid-data error and return no table.
C5_NoLineAfterHeader ==
    (/\ ret.op = "get_lp_series"
     /\ GotText
     /\ ~ \E j \in 5..Len(FetchedLines) : Len(FetchedLines[j]) > 1) =>
        ret.out = NoValidData

C5_OnlyShortLinesFetched ==
    /\ ret.op = "get_lp_series"
    /\ GotText
    /\ Len(FetchedLines) > 5
    /\ \E j \in 5..Len(FetchedLines) : Len(FetchedLines[j]) = 1
    /\ ret.out = NoValidData

\* C10: an LDC outside the supported set fails _retrieve_raw_data with the
\* invalid-LDC error whatever the date, and a supported LDC with a date that
\* lacks a year or month attribute fails with the invalid-date-type error;
\* in both cases no HTTP request has been issued.
C10_ArgumentsCheckedFirst ==
    ret.op = "_retrieve_raw_data" =>
        /\ ret.ldc \notin SupportedLdcs =>
              /\ ret.out = Raise("AssertionError", "ldc in self.ldcs")
              /\ requests = <<>>
        /\ (ret.ldc \in SupportedLdcs
                /\ ("year" \notin DOMAIN ret.dt \/ "month" \notin DOMAIN ret.dt)) =>
              /\ ret.out = Raise("TypeError", "Invalid date type")
              /\ requests = <<>>

C10_UnsupportedStateRejected ==
    /\ ret.op = "_retrieve_raw_data"
    /\ ret.ldc = "CNV"
    /\ ret.dt \in Dates
    /\ ret.out.kind = "raise"
    /\ requests = <<>>

(***************************************************************************)
(* Properties of the range aggregator (SpecRange).                         *)
(***************************************************************************)
RangeFrom == ParseDateArg(ret.from_dt)
RangeTo == ParseDateArg(ret.to_dt)

\* the days of the range and, for each, the two supported LDCs in order
ExpectedDays ==
    SelectSeq(DaysFrom(BaseDate, MaxDays),
              LAMBDA d : DateLeq(RangeFrom, d) /\ DateLeq(d, RangeTo))
ExpectedPairs ==
    [n \in 1..(2 * Len(ExpectedDays)) |->
        <<ExpectedDays[(n + 1) \div 2], IF n % 2 = 1 THEN "CND" ELSE "CNM">>]

RECURSIVE TablesOf(_)
TablesOf(pairs) ==
    IF pairs = <<>> THEN <<>>
    ELSE LET s == get_lp_series(Head(pairs)[1], Head(pairs)[2], TRUE).out
         IN  (IF s.kind = "frame" THEN s.rows ELSE <<>>) \o TablesOf(Tail(pairs))

\* C3: over an inclusive range in which every (day, LDC) pair gives a table
\* or no data, get_lp_data calls get_lp_series once per day and supported
\* LDC, day by day and LDC by LDC, and returns the tables of the pairs that
\* had data, concatenated in that order; it returns an empty result, not an
\* error, when no pair had data.
C3_ConcatenatesOrSkips ==
    (/\ ret.op = "get_lp_data"
     /\ DateLeq(RangeFrom, RangeTo)
     /\ \A n \in 1..Len(calls) : calls[n].out \in {"frame", "none"}) =>
        /\ Len(calls) = Len(ExpectedPairs)
        /\ \A n \in 1..Len(calls) :
              <<calls[n].dt, calls[n].ldc>> = ExpectedPairs[n]
        /\ ret.out.kind = "frame"
        /\ ret.out.rows = TablesOf(Tuple(ExpectedPairs))

(***************************************************************************)
(* Properties of the exporter (SpecExport).                                *)
(***************************************************************************)
Exported == ret.op = "export_for_oracle" /\ ret.out = None
OutputPath == ret.path \o ret.file_name
OutputRows == files[OutputPath].rows
InputRows == ret.lp_data.rows
DataNames == {"date"} \cup Range(Hours)

SameData(o, r) == \A c \in DataNames : o[c] = r[c]
NullData(o) == \A c \in DataNames : o[c] = NaN
Unmapped(r) == \A k \in 1..Len(codes.index) : codes.index[k] # r["segment"]
Unmatched(k) == \A i \in 1..Len(InputRows) : InputRows[i]["segment"] # codes.index[k]

\* C6: after an export, no row of the combined table whose segment has no
\* entry in the code mapping is in the output file, and the mapping entries
\* that match no row of the combined table each give one output row with
\* their destination code and a null date and null hours.
C6_RightJoin ==
    Exported =>
        /\ \A i \in 1..Len(InputRows) :
              Unmapped(InputRows[i]) =>
                  \A j \in 1..Len(OutputRows) : ~SameData(OutputRows[j], InputRows[i])
        /\ \A k \in 1..Len(codes.index) :
              Unmatched(k) =>
                  Cardinality({j \in 1..Len(OutputRows) :
                                   /\ OutputRows[j]["C_LOAD_PROFILE"]
                                          = codes.rows[k]["C_LOAD_PROFILE"]
                                   /\ NullData(OutputRows[j])})
                      = Cardinality({m \in 1..Len(codes.index) :
                                         /\ Unmatched(m)
                                         /\ codes.rows[m]["C_LOAD_PROFILE"]
                                                = codes.rows[k]["C_LOAD_PROFILE"]})

C6_DroppedAndNullRows ==
    /\ Exported
    /\ \E i \in 1..Len(InputRows) : Unmapped(InputRows[i])
    /\ \E k \in 1..Len(codes.index) : Unmatched(k)
    /\ \E j \in 1..Len(OutputRows) : NullData(OutputRows[j])
    /\ \E j \in 1..Len(OutputRows) : ~NullData(OutputRows[j])

\* a missing date sorts last
DateNotAfter(a, b) ==
    b["date"] = NaN \/ (a["date"] # NaN /\ DateLeq(a["date"][1], b["date"][1]))

\* C7 as stated: the rows written are sorted by date, then by destination
\* code: of two consecutive rows the first has the earlier or the same date,
\* and with the same date the smaller or the same code.
C7_SortedByDateThenCode ==
    Exported =>
        \A j \in 1..(Len(OutputRows) - 1) :
            /\ DateNotAfter(OutputRows[j], OutputRows[j + 1])
            /\ OutputRows[j]["date"] = OutputRows[j + 1]["date"] =>
                  OutputRows[j]["C_LOAD_PROFILE"][1]
                      <= OutputRows[j + 1]["C_LOAD_PROFILE"][1]

\* C7 amended: the rows written are sorted by destination code: of two
\* consecutive rows the first has the smaller or the same code (the dates
\* are not in order across codes).
C7_SortedByCode ==
    Exported =>
        \A j \in 1..(Len(OutputRows) - 1) :
            OutputRows[j]["C_LOAD_PROFILE"][1] <= OutputRows[j + 1]["C_LOAD_PROFILE"][1]

C7_LaterDateFirst ==
    /\ Exported
    /\ Len(OutputRows) = 2
    /\ OutputRows[1]["C_LOAD_PROFILE"][1] < OutputRows[2]["C_LOAD_PROFILE"][1]
    /\ OutputRows[1]["date"] # NaN /\ OutputRows[2]["date"] # NaN
    /\ DateLt(OutputRows[2]["date"][1], OutputRows[1]["date"][1])

\* C8: an export whose file name exists under the Archive location of the
\* chosen path fails with the already-archived error and writes nothing: the
\* files, the directories and the code mapping are as before the call.
C8_ArchivedNameRefused ==
    [][(/\ ret'.op = "export_for_oracle"
        /\ ret' # ret
        /\ (ret'.path \o "Archive\\" \o ret'.file_name) \in DOMAIN files) =>
           /\ ret'.out = Raise("FileExistsError", "already in Archive")
           /\ files' = files
           /\ dirs' = dirs
           /\ codes' = codes]_vars

C8_RefusedBesideOldOutput ==
    /\ ret.op = "export_for_oracle"
    /\ ret.out = Raise("FileExistsError", "already in Archive")
    /\ OutputPath \in DOMAIN files
    /\ files[OutputPath] = OldOutput

\* C9: with no code-mapping file at construction the loader warns and
\* substitutes an empty mapping, and a later export of a non-empty combined
\* table completes without error.
C9_ExportWithoutCodesFile ==
    CodesPath \notin DOMAIN files =>
        /\ codes = EmptyFrame
        /\ (ret.op = "export_for_oracle"
                /\ ~ (ret.path \o "Archive\\" \o ret.file_name) \in DOMAIN files) =>
              /\ ret.out = None
              /\ OutputPath \in DOMAIN files

====
